---- MODULE Spec2Model ----
(***************************************************************************)
(* h2cstartup: generation of a Cortex-M startup module from the IRQn enum  *)
(* of an MCU header (src/h2cstartup.c).  A C string is a sequence of       *)
(* one-character strings; a text line keeps its trailing newline, as       *)
(* fgets delivers it.                                                      *)
(***************************************************************************)
EXTENDS Integers, Sequences, FiniteSets

\* ---------------------------------------------------------------------
\* Program constants
\* ---------------------------------------------------------------------

IRQNAMELEN == 32

\* irqnum < NIRQLIMIT is part of the acceptance test of a scanned line
NIRQLIMIT == 496

\* lowest interrupt number that is stored
MINIRQN == -14

\* upper bound tested before the store (irqnum <= 512)
MAXSTORE == 512

\* slot = irqnum + SLOTOFFSET
SLOTOFFSET == 16

\* initial value of maxirqn
MAXIRQN0 == -15

\* nirqns when -n was not given
NOTSET == -1

\* largest accepted -n argument
MAXNARG == 496

ERR_NOFILE == 2

ERR_BADOPT == 4

\* ---------------------------------------------------------------------
\* Bounds of the model
\* ---------------------------------------------------------------------

\* at most MaxLines lines are read from the header
MaxLines == 3

\* at most MaxArgs command-line arguments follow the program name
MaxArgs == 4

\* ---------------------------------------------------------------------
\* C library functions on strings
\* ---------------------------------------------------------------------

Digits == <<"0","1","2","3","4","5","6","7","8","9">>

IsDigit(c) == \E k \in 1..10 : Digits[k] = c

DigitVal(c) == (CHOOSE k \in 1..10 : Digits[k] = c) - 1

IsSpace(c) == c \in {" ", "\t", "\n"}

\* first position >= i of s holding no white space (Len(s)+1 at the end)
RECURSIVE SkipSpace(_, _)
SkipSpace(s, i) ==
    IF i <= Len(s) /\ IsSpace(s[i]) THEN SkipSpace(s, i + 1) ELSE i

\* first position >= i of s holding white space (Len(s)+1 at the end)
RECURSIVE TokenEnd(_, _)
TokenEnd(s, i) ==
    IF i <= Len(s) /\ ~IsSpace(s[i]) THEN TokenEnd(s, i + 1) ELSE i

\* first position >= i of s holding no digit
RECURSIVE DigitsEnd(_, _)
DigitsEnd(s, i) ==
    IF i <= Len(s) /\ IsDigit(s[i]) THEN DigitsEnd(s, i + 1) ELSE i

\* value of the digit string s[i..j-1], acc being the value read so far
RECURSIVE DigitsVal(_, _, _, _)
DigitsVal(s, i, j, acc) ==
    IF i >= j THEN acc ELSE DigitsVal(s, i + 1, j, 10 * acc + DigitVal(s[i]))

\* the %d conversion at position i: white space, an optional sign, digits
ScanInt(s, i) ==
    LET b == SkipSpace(s, i)
        signed == b <= Len(s) /\ s[b] \in {"-", "+"}
        d == IF signed THEN b + 1 ELSE b
        e == DigitsEnd(s, d)
    IN  IF e = d
          THEN [ok |-> FALSE, val |-> 0]
          ELSE [ok |-> TRUE,
                val |-> IF signed /\ s[b] = "-"
                          THEN 0 - DigitsVal(s, d, e, 0)
                          ELSE DigitsVal(s, d, e, 0)]

\* sscanf(s, "%s = %d", irqid, &irqnum): n conversions were assigned
Sscanf(s) ==
    LET b == SkipSpace(s, 1)
        e == TokenEnd(s, b)
        q == SkipSpace(s, e)
        num == ScanInt(s, q + 1)
    IN  IF b > Len(s)
          THEN [n |-> 0, irqid |-> <<>>, irqnum |-> 0]
          ELSE IF q <= Len(s) /\ s[q] = "=" /\ num.ok
                 THEN [n |-> 2, irqid |-> SubSeq(s, b, e - 1), irqnum |-> num.val]
                 ELSE [n |-> 1, irqid |-> SubSeq(s, b, e - 1), irqnum |-> 0]

\* sscanf(s, "%d", &nirqns)
SscanfInt(s) == ScanInt(s, 1)

\* strstr(s, pat) != NULL
Strstr(s, pat) ==
    \E i \in 1..(Len(s) - Len(pat) + 1) : SubSeq(s, i, i + Len(pat) - 1) = pat

\* strchr(s, c) != NULL
Strchr(s, c) == \E i \in 1..Len(s) : s[i] = c

\* position of the last c in s, 0 when there is none (strrchr)
Strrchr(s, c) ==
    IF Strchr(s, c) THEN CHOOSE i \in 1..Len(s) : s[i] = c /\ \A j \in (i + 1)..Len(s) : s[j] # c
    ELSE 0

\* the %d conversion of printf
RECURSIVE Itoa(_)
Itoa(n) ==
    IF n < 0 THEN <<"-">> \o Itoa(0 - n)
    ELSE IF n < 10 THEN <<Digits[n + 1]>>
    ELSE Itoa(n \div 10) \o <<Digits[(n % 10) + 1]>>

\* ---------------------------------------------------------------------
\* Fixed strings of the program
\* ---------------------------------------------------------------------

\* the marker of the interrupt enumeration
Marker == <<"_","I","R","Q","n">>

HandlerSuffix == <<"H","a","n","d","l","e","r">>

\* "IRQ%d_IRQHandler": the name of an unused NVIC vector
PlaceholderName(n) == <<"I","R","Q">> \o Itoa(n) \o <<"_","I","R","Q">>

StartupPrefix == <<"s","t","a","r","t","u","p","_">>

\* stdexcname[i], <<>> standing for the null pointer
StdExcName(i) ==
    CASE i = 2 -> <<"N","M","I","_">>
      [] i = 4 -> <<"M","e","m","M","a","n","a","g","e","_">>
      [] i = 11 -> <<"S","V","C","_">>
      [] i = 12 -> <<"D","e","b","u","g","M","o","n","_">>
      [] OTHER -> <<>>

\* get_stripped_name: the part of name after the last '/', else after the last '\'
GetStrippedName(name) ==
    LET sl == Strrchr(name, "/")
        p == IF sl = 0 THEN Strrchr(name, "\\") ELSE sl
    IN  SubSeq(name, p + 1, Len(name))

\* "startup_" followed by the stripped input name, its last character made 'c'
OutputName(name) ==
    LET o == StartupPrefix \o GetStrippedName(name)
    IN  [k \in 1..Len(o) |-> IF k = Len(o) THEN "c" ELSE o[k]]

\* ---------------------------------------------------------------------
\* Inputs: command-line arguments and header lines
\* ---------------------------------------------------------------------

OptI == <<"-","i">>
OptS == <<"-","s">>
OptN == <<"-","n">>
OptX == <<"-","x">>
HeaderArg == <<"d","/","m",".","h">>

\* what argv[carg] may be
ArgTokens == {OptI, OptS, OptN, OptX, HeaderArg}

\* what the argument of -n may be
NArgTokens == {<<"0">>, <<"1">>, <<"4">>, <<"4","9","7">>, <<"x">>}

\* no argument left: carg >= argc
NoArg == <<>>

LineNMI == <<"N","o","n","M","a","s","k","a","b","l","e","I","n","t","_","I","R","Q","n"," ","="," ","-","1","4",",","\n">>
LineWWDG == <<"W","W","D","G","_","I","R","Q","n"," ","="," ","0",",","\n">>
LinePVD == <<"P","V","D","_","I","R","Q","n"," ","="," ","1",",","\n">>
LineClose == <<"}"," ","I","R","Q","n","_","T","y","p","e",";","\n">>
LineReset == <<"R","e","s","e","t","_","I","R","Q","n"," ","="," ","-","1","5",",","\n">>
LineLow == <<"L","o","w","_","I","R","Q","n"," ","="," ","-","1","6",",","\n">>
LineShort == <<"A"," ","="," ","3",",","\n">>
LineShortNeg == <<"A","b"," ","="," ","-","3",",","\n">>
LineBigClose == <<"B","i","g","_","I","R","Q","n"," ","="," ","4","9","6",","," ","}","\n">>
LineHuge == <<"H","u","g","e","_","I","R","Q","n"," ","="," ","6","0","0",",","\n">>
LinePendSV == <<"P","e","n","d","S","V","_","I","R","Q","n"," ","="," ","-","2",",","\n">>
LineMemManage == <<"M","e","m","o","r","y","M","a","n","a","g","e","m","e","n","t","_","I","R","Q","n"," ","="," ","-","1","2",",","\n">>
LineLast == <<"L","a","s","t","_","I","R","Q","n"," ","="," ","4","9","5",",","\n">>
LineComment == <<"/","*"," ","x"," ","*","/","\n">>
LineNoSpace == <<"X","=","5","\n">>
LineLong == <<"A","b","c","d","e","f","g","h","i","j","k","l","m","n","o","p","q","r","s","t","u","v","w","x","y","z","a","_","I","R","Q","n"," ","="," ","2",",","\n">>

\* the lines a header is made of
Lines ==
    {LineNMI, LineWWDG, LinePVD, LineClose, LineReset, LineLow, LineShort,
     LineShortNeg, LineBigClose, LineHuge, LinePendSV, LineMemManage, LineLast,
     LineComment, LineNoSpace, LineLong}

\* the lines of the headers that every combination of options is run on
GenLines ==
    {LineNMI, LineMemManage, LinePendSV, LineWWDG, LinePVD, LineShort, LineClose}

\* the header of the baseline scenario
BaselineHeader == <<LineNMI, LineWWDG, LinePVD, <<"}","\n">> >>

\* ---------------------------------------------------------------------
\* State
\* ---------------------------------------------------------------------

VARIABLES
    pc,          \* position in main
    rc,          \* exit status, -1 while running
    carg, addirqs, stdexcnames, nirqns, in_name,
    infile,      \* FILE *in: "none", "open", "closed" (non-null), "null"
    nread,       \* lines read from in so far
    line, irqdefs, maxirqn,
    irqname,     \* the rows of irqname[][] written so far; every other row is ""
    errout,      \* what was written to stderr
    helped,      \* helpstr was printed
    ub,          \* undefined behaviour was executed
    outfile,     \* FILE *out: "none", "open", "closed", "null"
    mcuirqns,
    heading,     \* the heading comment of the output, <<>> before it is written
    decls,       \* handler declarations written
    core,        \* .Core_Exceptions entries written
    nvic         \* .NVIC_Interrupts entries written

vars ==
    <<pc, rc, carg, addirqs, stdexcnames, nirqns, in_name, infile, nread, line,
      irqdefs, maxirqn, irqname, errout, helped, ub, outfile, mcuirqns, heading,
      decls, core, nvic>>

argVars == <<carg, addirqs, stdexcnames, nirqns, in_name>>
scanVars == <<nread, line, irqdefs, maxirqn, irqname>>
outVars == <<outfile, mcuirqns, heading, decls, core, nvic>>

\* irqname[i] as a string
Row(i) == IF i \in DOMAIN irqname THEN irqname[i] ELSE <<>>

Init ==
    /\ pc = "start"
    /\ rc = -1
    /\ carg = 0
    /\ addirqs = FALSE
    /\ stdexcnames = FALSE
    /\ nirqns = NOTSET
    /\ in_name = <<>>
    /\ infile = "none"
    /\ nread = 0
    /\ line = <<>>
    /\ irqdefs = FALSE
    /\ maxirqn = MAXIRQN0
    /\ irqname = <<>>
    /\ errout = <<>>
    /\ helped = FALSE
    /\ ub = FALSE
    /\ outfile = "none"
    /\ mcuirqns = 0
    /\ heading = <<>>
    /\ decls = <<>>
    /\ core = <<>>
    /\ nvic = <<>>

\* ---------------------------------------------------------------------
\* Command line (lines 116-169)
\* ---------------------------------------------------------------------

Exit(code) == pc' = "exit" /\ rc' = code

\* argc < 2: the usage text, exit status 0; otherwise the option loop starts
Start(hasArgs) ==
    /\ pc = "start"
    /\ IF hasArgs
         THEN /\ pc' = "args"
              /\ carg' = 1
              /\ UNCHANGED <<rc, helped>>
         ELSE /\ helped' = TRUE
              /\ Exit(0)
              /\ carg' = carg
    /\ UNCHANGED <<addirqs, stdexcnames, nirqns, in_name, infile, errout, ub>>
    /\ UNCHANGED scanVars
    /\ UNCHANGED outVars

\* -n value accepted by the range test
NArgInRange(v) == ~(v < 0 \/ v > MAXNARG)

\* One pass of the option loop, or its exit.  tok is argv[carg] (NoArg when
\* carg >= argc) and val is argv[carg + 1] (NoArg when there is none).
ParseArg(tok, val) ==
    /\ pc = "args"
    /\ IF tok = NoArg
         THEN /\ errout' = Append(errout, <<"file not specified">>)
              /\ Exit(1)
              /\ UNCHANGED argVars
         ELSE IF tok[1] # "-"
         THEN /\ in_name' = tok
              /\ pc' = "open_in"
              /\ UNCHANGED <<rc, errout, carg, addirqs, stdexcnames, nirqns>>
         ELSE IF Len(tok) > 1 /\ tok[2] = "n"
         THEN LET r == SscanfInt(val)
              IN  IF val = NoArg \/ ~r.ok
                    THEN /\ errout' = Append(errout, <<"missing -n argument">>)
                         /\ Exit(ERR_BADOPT)
                         /\ carg' = carg + 1
                         /\ UNCHANGED <<addirqs, stdexcnames, nirqns, in_name>>
                    ELSE /\ nirqns' = r.val
                         /\ carg' = IF NArgInRange(r.val) THEN carg + 2 ELSE carg + 1
                         /\ IF NArgInRange(r.val)
                              THEN UNCHANGED <<pc, rc, errout>>
                              ELSE /\ errout' = Append(errout, <<"-n argument out of range">>)
                                   /\ Exit(ERR_BADOPT)
                         /\ UNCHANGED <<addirqs, stdexcnames, in_name>>
         ELSE IF Len(tok) > 1 /\ tok[2] = "i"
         THEN /\ addirqs' = TRUE
              /\ carg' = carg + 1
              /\ UNCHANGED <<pc, rc, errout, stdexcnames, nirqns, in_name>>
         ELSE IF Len(tok) > 1 /\ tok[2] = "s"
         THEN /\ stdexcnames' = TRUE
              /\ carg' = carg + 1
              /\ UNCHANGED <<pc, rc, errout, addirqs, nirqns, in_name>>
         ELSE /\ errout' = Append(errout, <<"invalid option", tok>>)
              /\ Exit(ERR_BADOPT)
              /\ UNCHANGED argVars
    /\ UNCHANGED <<infile, helped, ub>>
    /\ UNCHANGED scanVars
    /\ UNCHANGED outVars

\* fopen(in_name, "r")
OpenIn(found) ==
    /\ pc = "open_in"
    /\ IF found
         THEN /\ infile' = "open"
              /\ pc' = "scan"
              /\ UNCHANGED <<rc, errout>>
         ELSE /\ infile' = "null"
              /\ errout' = Append(errout, <<"file not found", in_name>>)
              /\ Exit(ERR_NOFILE)
    /\ UNCHANGED <<helped, ub>>
    /\ UNCHANGED argVars
    /\ UNCHANGED scanVars
    /\ UNCHANGED outVars

\* ---------------------------------------------------------------------
\* Header scan (lines 171-198)
\* ---------------------------------------------------------------------

\* SeenMarker without the marker test: every line is scanned
SeenMarkerAlways(seen, l) == TRUE

\* irqdefs after the marker test of a line
SeenMarker(seen, l) == seen \/ Strstr(l, Marker)

\* the line is an interrupt definition: two conversions and irqnum < 496
Accepted(r) == r.n = 2 /\ r.irqnum < NIRQLIMIT

\* CutLen without the sign test
CutLenOne(irqnum) == 1

\* number of characters cut from the end of the identifier
CutLen(irqnum) == IF irqnum >= 0 THEN 1 ELSE 4

\* the test guarding the store
Storable(irqnum) == irqnum >= MINIRQN /\ irqnum <= MAXSTORE

\* Slot with an offset one too small
SlotOffByOne(irqnum) == irqnum + SLOTOFFSET - 1

\* the row of irqname an interrupt number is stored in
Slot(irqnum) == irqnum + SLOTOFFSET

\* irqname after strcpy(irqname[s], name)
Store(s, name) ==
    [i \in (DOMAIN irqname) \cup {s} |-> IF i = s THEN name ELSE irqname[i]]

\* One pass of the read loop on line l.  sscanf's %s has no width: an
\* identifier of IRQNAMELEN characters or more overruns irqid, and an
\* identifier shorter than the cut writes before irqid.  Either is undefined
\* behaviour: the process crashes, or the write lands where nothing reads it
\* (irqid then keeps the whole identifier when the cut missed it).
ReadLine(l, crash) ==
    /\ pc = "scan"
    /\ LET seen == SeenMarker(irqdefs, l)
           r == Sscanf(l)
           acc == seen /\ Accepted(r)
           cut == Len(r.irqid) - CutLen(r.irqnum)
           overrun == seen /\ Len(r.irqid) >= IRQNAMELEN
           badcut == acc /\ cut < 0
           name == IF cut < 0 THEN r.irqid ELSE SubSeq(r.irqid, 1, cut)
       IN  /\ crash => (overrun \/ badcut)
           /\ line' = l
           /\ nread' = nread + 1
           /\ irqdefs' = seen
           /\ ub' = (ub \/ overrun \/ badcut)
           /\ IF crash
                THEN /\ pc' = "crashed"
                     /\ UNCHANGED <<maxirqn, irqname, errout, infile>>
                ELSE /\ maxirqn' = IF acc /\ r.irqnum > maxirqn THEN r.irqnum ELSE maxirqn
                     /\ irqname' = IF acc /\ Storable(r.irqnum)
                                     THEN Store(Slot(r.irqnum), name)
                                     ELSE irqname
                     /\ errout' = IF acc /\ ~Storable(r.irqnum)
                                    THEN Append(errout, <<"error", l>>)
                                    ELSE errout
                     /\ IF seen /\ ~Accepted(r) /\ Strchr(l, "}")
                          THEN pc' = "scanned" /\ infile' = "closed"
                          ELSE UNCHANGED <<pc, infile>>
    /\ UNCHANGED <<rc, helped>>
    /\ UNCHANGED argVars
    /\ UNCHANGED outVars

\* fgets returns NULL: end of the header
ReadEOF ==
    /\ pc = "scan"
    /\ pc' = "scanned"
    /\ infile' = "closed"
    /\ UNCHANGED <<rc, errout, helped, ub>>
    /\ UNCHANGED argVars
    /\ UNCHANGED scanVars
    /\ UNCHANGED outVars

\* ---------------------------------------------------------------------
\* Generation (lines 200-274)
\* ---------------------------------------------------------------------

\* nirqns after the adjustment of lines 216-217
AdjustedCount(n, mcu) == IF n > mcu /\ ~addirqs THEN mcu ELSE n

\* ClampedMax without the adjustment
ClampedMaxNone(m, n) == m

\* maxirqn after the adjustment of lines 232-233
ClampedMax(m, n) == IF n # NOTSET /\ m > n - 1 THEN n - 1 ELSE m

\* DeclName without the standard short names
DeclNameVendor(i) == Row(i)

\* the name a handler of row i < 16 is declared under
DeclName(i) ==
    IF stdexcnames /\ i < SLOTOFFSET /\ StdExcName(i) # <<>> THEN StdExcName(i) ELSE Row(i)

\* CoreName without the standard short names
CoreNameVendor(i) == Row(i)

\* the name a core exception vector of row i refers to
CoreName(i) ==
    IF stdexcnames /\ StdExcName(i) # <<>> THEN StdExcName(i) ELSE Row(i)

\* the name an NVIC vector of row i refers to
NvicName(i) ==
    IF Row(i) # <<>> THEN Row(i) ELSE PlaceholderName(i - SLOTOFFSET)

\* row i gets a declaration
Declared(i) == Row(i) # <<>> \/ (i >= SLOTOFFSET /\ addirqs)

\* the declaration of row i
Decl(i) ==
    [slot |-> i,
     handler |-> (IF Row(i) # <<>> THEN DeclName(i) ELSE PlaceholderName(i - SLOTOFFSET))
                    \o HandlerSuffix]

\* last row of the declaration loop and of the NVIC loop
LastRow(m) == m + SLOTOFFSET

\* first row of NVIC interrupts, one past the last core exception row
FirstNvicRow == SLOTOFFSET

\* the loop of lines 235-248: the declarations of rows first..last, in order
DeclLoop(first, last) ==
    SelectSeq([k \in 1..(last - first + 1) |-> Decl(first + k - 1)],
              LAMBDA d : Declared(d.slot))

\* The output file is opened and its heading written.  The test after fopen
\* reads in, not out: in is not null here, so a failed fopen goes unnoticed
\* and the first fprintf gets a null stream, which is undefined behaviour:
\* the process crashes, or the writes are dropped and main runs to its end.
OpenOut(created, crash) ==
    /\ pc = "scanned"
    /\ crash => ~created
    /\ IF infile = "null"
         THEN /\ errout' = Append(errout, <<"cannot create file", OutputName(in_name)>>)
              /\ Exit(ERR_NOFILE)
              /\ outfile' = IF created THEN "open" ELSE "null"
              /\ UNCHANGED <<ub, nirqns, mcuirqns, heading>>
         ELSE IF created
         THEN /\ outfile' = "open"
              /\ mcuirqns' = maxirqn + 1
              /\ nirqns' = AdjustedCount(nirqns, maxirqn + 1)
              /\ heading' = [ofname |-> OutputName(in_name),
                             from |-> GetStrippedName(in_name),
                             short |-> stdexcnames,
                             vectors |-> IF nirqns' > -1 /\ nirqns' # mcuirqns'
                                           THEN <<nirqns', mcuirqns'>>
                                           ELSE <<>>,
                             unused |-> addirqs]
              /\ pc' = "decls"
              /\ UNCHANGED <<rc, errout, ub>>
         ELSE /\ outfile' = "null"
              /\ ub' = TRUE
              /\ IF crash THEN pc' = "crashed" /\ rc' = rc ELSE Exit(0)
              /\ UNCHANGED <<errout, nirqns, mcuirqns, heading>>
    /\ UNCHANGED <<carg, addirqs, stdexcnames, in_name, infile, helped>>
    /\ UNCHANGED scanVars
    /\ UNCHANGED <<decls, core, nvic>>

\* lines 232-248: maxirqn is clamped, then one declaration per named row and,
\* with -i, per unnamed NVIC row, up to row maxirqn + 16
EmitDecls ==
    /\ pc = "decls"
    /\ maxirqn' = ClampedMax(maxirqn, nirqns)
    /\ decls' = DeclLoop(2, LastRow(maxirqn'))
    /\ pc' = "core"
    /\ UNCHANGED <<rc, errout, helped, ub, infile, nread, line, irqdefs, irqname>>
    /\ UNCHANGED argVars
    /\ UNCHANGED <<outfile, mcuirqns, heading, core, nvic>>

\* row i gets a core exception vector
CoreListed(i) == Row(i) # <<>>

\* the core exception vector of row i
CoreEntry(i) ==
    [slot |-> i, handler |-> CoreName(i) \o HandlerSuffix, comma |-> i < FirstNvicRow - 1]

\* the loop of lines 250-256: the vectors of rows first..last, in order
CoreLoop(first, last) ==
    SelectSeq([k \in 1..(last - first + 1) |-> CoreEntry(first + k - 1)],
              LAMBDA e : CoreListed(e.slot))

\* lines 249-256: the core exception vectors of rows 2..15
EmitCore ==
    /\ pc = "core"
    /\ core' = CoreLoop(2, FirstNvicRow - 1)
    /\ pc' = "nvic"
    /\ UNCHANGED <<rc, errout, helped, ub, infile>>
    /\ UNCHANGED argVars
    /\ UNCHANGED scanVars
    /\ UNCHANGED <<outfile, mcuirqns, heading, decls, nvic>>

\* row i gets an NVIC vector
NvicListed(i) == Row(i) # <<>> \/ addirqs

\* the NVIC vector of row i
NvicEntry(i) ==
    [index |-> i - SLOTOFFSET,
     width |-> IF maxirqn > 99 THEN 3 ELSE 2,
     handler |-> NvicName(i) \o HandlerSuffix,
     comma |-> i < LastRow(maxirqn)]

\* the loop of lines 259-272: the vectors of rows first..last, in order
NvicLoop(first, last) ==
    SelectSeq([k \in 1..(last - first + 1) |-> NvicEntry(first + k - 1)],
              LAMBDA e : NvicListed(e.index + SLOTOFFSET))

\* lines 257-274: the NVIC vectors of rows 16..maxirqn + 16; the file is closed
EmitNVIC ==
    /\ pc = "nvic"
    /\ nvic' = NvicLoop(FirstNvicRow, LastRow(maxirqn))
    /\ outfile' = "closed"
    /\ Exit(0)
    /\ UNCHANGED <<errout, helped, ub, infile>>
    /\ UNCHANGED argVars
    /\ UNCHANGED scanVars
    /\ UNCHANGED <<mcuirqns, heading, decls, core>>

\* ---------------------------------------------------------------------
\* Specifications
\* ---------------------------------------------------------------------

\* what argv[carg] may be, with at most MaxArgs arguments drawn from toks
ArgSupply(toks) ==
    IF carg > MaxArgs THEN {NoArg}
    ELSE IF carg = 1 THEN toks ELSE toks \cup {NoArg}

\* what argv[carg + 1] may be when argv[carg] is tok
ValSupply(tok) ==
    IF tok = OptN /\ carg + 1 <= MaxArgs THEN NArgTokens \cup {NoArg} ELSE {NoArg}

\* main up to the read loop, the arguments drawn from toks
CommandLine(toks) ==
    \/ \E hasArgs \in BOOLEAN : Start(hasArgs)
    \/ \E tok \in ArgSupply(toks) : \E val \in ValSupply(tok) : ParseArg(tok, val)
    \/ \E found \in BOOLEAN : OpenIn(found)

\* the read loop on a header of at most MaxLines lines drawn from ls
Scan(ls) ==
    \/ \E l \in ls : \E crash \in BOOLEAN : nread < MaxLines /\ ReadLine(l, crash)
    \/ ReadEOF

\* the read loop on the header hdr
ScanOf(hdr) ==
    IF nread < Len(hdr)
      THEN \E crash \in BOOLEAN : ReadLine(hdr[nread + 1], crash)
      ELSE ReadEOF

\* main after the read loop
Generate ==
    \/ \E created \in BOOLEAN : \E crash \in BOOLEAN : OpenOut(created, crash)
    \/ EmitDecls
    \/ EmitCore
    \/ EmitNVIC

\* any options, a header made of GenLines
Next == CommandLine(ArgTokens) \/ Scan(GenLines) \/ Generate

Spec == Init /\ [][Next]_vars

\* no options, a header made of Lines
NextScan == CommandLine({HeaderArg}) \/ Scan(Lines) \/ Generate

SpecScan == Init /\ [][NextScan]_vars

\* any options, the header of the baseline scenario
NextBaseline == CommandLine(ArgTokens) \/ ScanOf(BaselineHeader) \/ Generate

SpecBaseline == Init /\ [][NextBaseline]_vars

\* ---------------------------------------------------------------------
\* Properties of the header scan
\* ---------------------------------------------------------------------

\* this step read a line and ran the body of the read loop on it
ReadStep == pc = "scan" /\ nread' = nread + 1

\* the line read by this step lies in the scanning block and has the form
\* <identifier> = <integer>
DefinitionRead == ReadStep /\ irqdefs' /\ Sscanf(line').n = 2

\* identifier and integer of the line read by this step
ReadId == Sscanf(line').irqid
ReadNum == Sscanf(line').irqnum

\* id without its last 1 (num >= 0) or 4 (num < 0) characters
Stripped(id, num) == SubSeq(id, 1, Len(id) - (IF num >= 0 THEN 1 ELSE 4))

\* table t with row s set to name and every other row as it was
WithRow(t, s, name) == [i \in (DOMAIN t) \cup {s} |-> IF i = s THEN name ELSE t[i]]

C5_OutOfRangeReported ==
    [][(DefinitionRead /\ (ReadNum < -14 \/ ReadNum >= 496))
         => /\ irqname' = irqname
            /\ errout' = Append(errout, <<"error", line'>>)
            /\ pc' = "scan"]_vars

\* C8: only the lines from the first one holding the marker up to the line
\* that ends the scan change the table or maxirqn.  irqdefs is set by the
\* first line holding the marker and by nothing else; a line read while it
\* stays unset changes neither the table nor maxirqn; a line of the block
\* that is no definition and holds a closing brace ends the scan; once the
\* scan has ended no line is read, the table stays as it is, and the scan
\* is not entered again.
C8_ScanWindow ==
    [][/\ ReadStep => (irqdefs' = (irqdefs \/ Strstr(line', <<"_","I","R","Q","n">>)))
       /\ ~ReadStep => (irqdefs' = irqdefs /\ irqname' = irqname /\ nread' = nread)
       /\ (ReadStep /\ ~irqdefs') => (irqname' = irqname /\ maxirqn' = maxirqn)
       /\ (ReadStep /\ irqdefs' /\ Sscanf(line').n # 2 /\ Strchr(line', "}"))
            => pc' \notin {"scan"}
       /\ pc \in {"scanned", "decls", "core", "nvic", "exit", "crashed"}
            => pc' \notin {"start", "args", "open_in", "scan"}]_vars

\* C8 witness: a line of the form <identifier> = <integer> read before the
\* marker left the table empty
C8_Witness ==
    /\ pc = "scan"
    /\ nread = 2
    /\ ~irqdefs
    /\ Sscanf(line).n = 2
    /\ irqname = <<>>
    /\ maxirqn = -15

\* C9 as stated: every row written by the scan holds a non-empty name
C9_NonEmptyNames == \A s \in DOMAIN irqname : irqname[s] # <<>>

\* ---------------------------------------------------------------------
\* Properties of the generation
\* ---------------------------------------------------------------------

\* the output file was written to its end
Generated == pc = "exit" /\ outfile = "closed"

\* row i is declared under name
HasDecl(i, name) ==
    \E k \in 1..Len(decls) : decls[k].slot = i /\ decls[k].handler = name \o <<"H","a","n","d","l","e","r">>

\* the core exception vector of row i refers to name
HasCore(i, name) ==
    \E k \in 1..Len(core) : core[k].slot = i /\ core[k].handler = name \o <<"H","a","n","d","l","e","r">>

\* the rows declared, and the rows with a vector
DeclRows == {decls[k].slot : k \in 1..Len(decls)}
CoreRows == {core[k].slot : k \in 1..Len(core)}
NvicIndexes == {nvic[k].index : k \in 1..Len(nvic)}

\* C2: when -n asks for fewer vectors than the header defines, no handler
\* is declared and no NVIC vector is written for an NVIC index at or above
\* the requested count; with -n 0 the NVIC table is empty.
C2_Truncation ==
    (heading # <<>> /\ nirqns # -1 /\ nirqns < mcuirqns)
      => /\ \A r \in DeclRows : r - 16 < nirqns
         /\ \A x \in NvicIndexes : x < nirqns

\* C2 witness: -n 0 and -i on a header that defines interrupts 0 and 1
C2_Witness ==
    /\ Generated
    /\ nirqns = 0
    /\ addirqs
    /\ mcuirqns = 2
    /\ Row(16) # <<>>
    /\ Row(17) # <<>>
    /\ decls # <<>>

\* C3 as stated: the baseline header with -i -n 4 gives four NVIC vectors,
\* 0 and 1 named by the header, 2 and 3 under placeholder names that are
\* declared as well.
C3_FillUp ==
    (Generated /\ addirqs /\ nirqns = 4)
      => /\ Len(nvic) = 4
         /\ \A k \in 1..4 : nvic[k].index = k - 1
         /\ nvic[3].handler = <<"I","R","Q","2","_","I","R","Q","H","a","n","d","l","e","r">>
         /\ nvic[4].handler = <<"I","R","Q","3","_","I","R","Q","H","a","n","d","l","e","r">>
         /\ HasDecl(18, <<"I","R","Q","2","_","I","R","Q">>)
         /\ HasDecl(19, <<"I","R","Q","3","_","I","R","Q">>)

\* the core exception rows with a standard short name, and those names
ShortNamed == {2, 4, 11, 12}
ShortName(i) ==
    CASE i = 2 -> <<"N","M","I","_">>
      [] i = 4 -> <<"M","e","m","M","a","n","a","g","e","_">>
      [] i = 11 -> <<"S","V","C","_">>
      [] i = 12 -> <<"D","e","b","u","g","M","o","n","_">>

\* C4 as stated: with -s each of the rows 2, 4, 11 and 12 is declared and
\* listed in the core table under its standard short name, whatever the
\* header named it (or not); every other core row is emitted under the
\* header's name.
C4_Original ==
    (Generated /\ stdexcnames)
      => /\ \A i \in ShortNamed : HasDecl(i, ShortName(i)) /\ HasCore(i, ShortName(i))
         /\ \A i \in (2..15) \ ShortNamed :
               Row(i) # <<>> => (HasDecl(i, Row(i)) /\ HasCore(i, Row(i)))

\* C4 amended: with -s a core row (2..15) that the header named is declared
\* and listed exactly once, under its standard short name when it is one of
\* the rows 2, 4, 11, 12 and under the header's name otherwise; a core row
\* the header did not name, one of the four included, is neither declared
\* nor listed.
C4_ShortNames ==
    (Generated /\ stdexcnames)
      => \A i \in 2..15 :
           IF Row(i) = <<>>
             THEN i \notin DeclRows /\ i \notin CoreRows
             ELSE LET nm == IF i \in ShortNamed THEN ShortName(i) ELSE Row(i)
                  IN  /\ HasDecl(i, nm)
                      /\ HasCore(i, nm)
                      /\ Cardinality({k \in 1..Len(decls) : decls[k].slot = i}) = 1
                      /\ Cardinality({k \in 1..Len(core) : core[k].slot = i}) = 1

\* C4 witness: -s on a header naming rows 2 and 14 but not row 4
C4_Witness ==
    /\ Generated
    /\ stdexcnames
    /\ Row(2) # <<>>
    /\ Row(14) # <<>>
    /\ Row(4) = <<>>

\* C6 as stated: a missing input file and an output file that cannot be
\* created end the run with a message and status 2, a bad option or -n
\* argument with a message and status 4, and nothing is generated after any
\* of them.
C6_FatalErrors ==
    LET last == errout[Len(errout)]
        nothing == heading = <<>> /\ decls = <<>> /\ core = <<>> /\ nvic = <<>>
    IN  /\ infile = "null"
            => (pc = "exit" /\ rc = 2 /\ errout # <<>> /\ outfile = "none" /\ nothing)
        /\ outfile = "null"
            => (pc = "exit" /\ rc = 2 /\ errout # <<>> /\ last[1] = "cannot create file" /\ nothing)
        /\ (errout # <<>> /\ last[1] \in {"invalid option", "missing -n argument", "-n argument out of range"})
            => (pc = "exit" /\ rc = 4 /\ infile = "none" /\ outfile = "none" /\ nothing)

\* no option was given
NoOptions == ~addirqs /\ ~stdexcnames /\ nirqns = -1

\* the declarations of NVIC rows, in order
NvicDecls == SelectSeq(decls, LAMBDA d : d.slot >= 16)

\* C7 as stated: the baseline header without options gives row 2 the name
\* NonMaskableInt_ and NVIC 0 and 1 the names WWDG_ and PVD_, mcuirqns = 2,
\* two NVIC declarations and two NVIC vectors, no placeholder among them.
C7_Original ==
    (Generated /\ NoOptions)
      => /\ Row(2) = <<"N","o","n","M","a","s","k","a","b","l","e","I","n","t","_">>
         /\ Row(16) = <<"W","W","D","G","_">>
         /\ Row(17) = <<"P","V","D","_">>
         /\ mcuirqns = 2
         /\ Len(NvicDecls) = 2
         /\ Len(nvic) = 2
         /\ \A k \in 1..2 : nvic[k].handler = Row(16 + k - 1) \o <<"H","a","n","d","l","e","r">>
         /\ \A k \in 1..2 : NvicDecls[k].handler = Row(16 + k - 1) \o <<"H","a","n","d","l","e","r">>

\* C7 amended: as stated, but NVIC 0 and 1 are named WWDG_IRQ and PVD_IRQ
\* (one character is cut from a non-negative entry): the two declarations
\* and the two vectors are WWDG_IRQHandler and PVD_IRQHandler.
C7_Baseline ==
    (Generated /\ NoOptions)
      => /\ Row(2) = <<"N","o","n","M","a","s","k","a","b","l","e","I","n","t","_">>
         /\ Row(16) = <<"W","W","D","G","_","I","R","Q">>
         /\ Row(17) = <<"P","V","D","_","I","R","Q">>
         /\ DOMAIN irqname = {2, 16, 17}
         /\ mcuirqns = 2
         /\ [k \in 1..Len(NvicDecls) |-> NvicDecls[k].handler]
              = << <<"W","W","D","G","_","I","R","Q","H","a","n","d","l","e","r">>,
                   <<"P","V","D","_","I","R","Q","H","a","n","d","l","e","r">> >>
         /\ [k \in 1..Len(nvic) |-> <<nvic[k].index, nvic[k].handler>>]
              = << <<0, <<"W","W","D","G","_","I","R","Q","H","a","n","d","l","e","r">> >>,
                   <<1, <<"P","V","D","_","I","R","Q","H","a","n","d","l","e","r">> >> >>

\* C7 witness: the baseline header was read to its closing brace and the
\* output written without options
C7_Witness ==
    /\ Generated
    /\ NoOptions
    /\ nread = 4
    /\ line = <<"}","\n">>
    /\ Len(nvic) = 2

\* the (row, handler) pairs declared, and those the vector table refers to
DeclPairs == {<<decls[k].slot, decls[k].handler>> : k \in 1..Len(decls)}
VectorPairs ==
    {<<core[k].slot, core[k].handler>> : k \in 1..Len(core)}
      \cup {<<nvic[k].index + 16, nvic[k].handler>> : k \in 1..Len(nvic)}

\* C10: the handlers the vector table refers to are exactly the handlers
\* declared, row by row under the same name
C10_Agreement == Generated => DeclPairs = VectorPairs

\* C10 witness: -s and -i on a header with a named core row 2 and an
\* unnamed NVIC row, which gets a placeholder
C10_Witness ==
    /\ Generated
    /\ stdexcnames
    /\ addirqs
    /\ HasCore(2, <<"N","M","I","_">>)
    /\ \E k \in 1..Len(nvic) :
          nvic[k].handler = <<"I","R","Q","2","_","I","R","Q","H","a","n","d","l","e","r">>

====
